---- MODULE Spec2Model ----
(***************************************************************************)
(* Model of ddns.go: a dynamic-DNS updater for Aliyun DNS.                 *)
(*                                                                         *)
(* main() runs a startup sequence (config file, log file, DNS client) and  *)
(* then loops forever: getPublicIP, updateDNSRecord, report to the file    *)
(* logger, getSleepDuration, time.Sleep.  The DNS provider and the IP      *)
(* lookup endpoint are the environment: every call to them may succeed or  *)
(* fail, and the provider holds an ordered list of records that only this  *)
(* program writes.                                                         *)
(*                                                                         *)
(* Durations are counted in seconds (time.Second is 1).                    *)
(***************************************************************************)
EXTENDS Integers, Sequences, FiniteSets, TLC

VARIABLES
    pc,             \* position of main(): a startup step, a loop step, or "exited"
    exitCode,       \* argument of os.Exit, -1 while the process runs
    config,         \* the Config decoded by loadConfig
    logFile,        \* the log file handle: "closed" or "open"
    client,         \* the alidns client: "nil" or "ready"
    provider,       \* the provider's records for the domain, in returned order
    publicIP,       \* publicIP of the current iteration
    ipErr,          \* err returned by getPublicIP in the current iteration
    listed,         \* records.DomainRecords.Record of the current iteration
    calls,          \* gateway requests issued in the current iteration, in order,
                    \* each with whether the provider answered without an error
    ret,            \* err returned by updateDNSRecord in the current iteration
    fileLog,        \* lines fileLogger received since the current iteration began
    stdLog,         \* lines the default logger received since then
    sleepDuration,  \* sleepDuration of the current iteration
    lastCycle,      \* what the previous iteration issued, returned and logged
    httpResp,       \* resp of getPublicIP while the call runs, NoResponse otherwise
    httpRequests    \* requests http.Get was asked for in the current iteration

vars == << pc, exitCode, config, logFile, client, provider, publicIP, ipErr,
           listed, calls, ret, fileLog, stdLog, sleepDuration, lastCycle,
           httpResp, httpRequests >>

-----------------------------------------------------------------------------
(* Bounds and input sets *)

\* longest record list the provider holds initially
MaxRecords == 2

IPs == {"1.2.3.4", "5.6.7.8"}
RecordTypes == {"A", "AAAA"}
RRs == {"*", "www"}
RecordValues == IPs \cup {""}
DomainNames == {"example.com"}
LogPaths == {"", "logs/DDns.log"}
Delays == {-1, 0, 2}
TimeUnits == {"second", "minute", "hour", "day"}

\* time.Second, time.Minute, time.Hour, in seconds
Second == 1
Minute == 60
Hour == 3600

\* the zero Config, before loadConfig
ZeroConfig ==
    [DomainName |-> "", LogPath |-> "", RecordType |-> "", RR |-> "",
     Delay |-> 0, TimeUnit |-> ""]

\* the configurations a config file can decode to
Configs ==
    [DomainName : DomainNames, LogPath : LogPaths, RecordType : {"A"},
     RR : {"*"}, Delay : Delays, TimeUnit : TimeUnits]

\* the records a domain can hold: every value under the key ("A", "*"), and
\* one record under each key that differs from it in the type or in the RR
RecordShapes ==
    { r \in [Type : RecordTypes, RR : RRs, Value : RecordValues] :
        \/ r.Type = "A" /\ r.RR = "*"
        \/ r.Value = "1.2.3.4" /\ (r.Type = "A" \/ r.RR = "*") }

\* a record list as the provider holds it: RecordIds are unique
RecordLists ==
    UNION { { [i \in 1..n |-> [RecordId |-> i, Type |-> f[i].Type, RR |-> f[i].RR,
                               Value |-> f[i].Value]] :
              f \in [1..n -> RecordShapes] } :
            n \in 0..MaxRecords }

\* the bodies the IP lookup endpoint can answer with: kind is the first JSON
\* value of the body ("invalid" when it begins with none), ip the "ip" member
\* of an object, rest what follows the first value
Bodies ==
    { [kind |-> k, ip |-> "absent", rest |-> ""] : k \in {"invalid", "array", "null"} }
    \cup { [kind |-> "object", ip |-> v, rest |-> ""] : v \in IPs \cup {"absent", "nonstring"} }
    \cup { [kind |-> "object", ip |-> "1.2.3.4", rest |-> "<html>"] }

\* the answers of http.Get: a transport error, an error status with an error
\* page or with a well-formed body, and status 200 with every body
Responses ==
    { [netErr |-> TRUE, status |-> 0, body |-> [kind |-> "invalid", ip |-> "absent", rest |-> ""]] }
    \cup { [netErr |-> FALSE, status |-> 503, body |-> b] :
             b \in { [kind |-> "invalid", ip |-> "absent", rest |-> ""],
                     [kind |-> "object", ip |-> "1.2.3.4", rest |-> ""] } }
    \cup [netErr : {FALSE}, status : {200}, body : Bodies]

\* no call of getPublicIP is running
NoResponse ==
    [netErr |-> FALSE, status |-> 0, body |-> [kind |-> "invalid", ip |-> "absent", rest |-> ""]]

NoCycle == [ran |-> FALSE, ipErr |-> "nil", ops |-> <<>>, ret |-> "none", sink |-> <<>>]

-----------------------------------------------------------------------------
(* State after construction *)

Init ==
    /\ pc = "stat"
    /\ exitCode = -1
    /\ config = ZeroConfig
    /\ logFile = "closed"
    /\ client = "nil"
    /\ provider \in RecordLists
    /\ publicIP = ""
    /\ ipErr = "nil"
    /\ listed = <<>>
    /\ calls = <<>>
    /\ ret = "none"
    /\ fileLog = <<>>
    /\ stdLog = <<>>
    /\ sleepDuration = 0
    /\ lastCycle = NoCycle
    /\ httpResp = NoResponse
    /\ httpRequests = 0

cycleVars == << publicIP, ipErr, listed, calls, ret, fileLog, stdLog,
                sleepDuration, lastCycle, httpResp, httpRequests >>

\* os.Exit(code), also the end of log.Fatal
Exit(code) ==
    /\ pc' = "exited"
    /\ exitCode' = code

-----------------------------------------------------------------------------
(* Startup: main, lines 121-170 *)

\* os.Stat on the config path; a missing file is replaced by the default
\* configuration and the process exits 0
StatConfig ==
    /\ pc = "stat"
    /\ \E exists \in BOOLEAN :
          IF ~exists
             THEN Exit(0)
             ELSE /\ pc' = "load"
                  /\ UNCHANGED exitCode
    /\ UNCHANGED << config, logFile, client, provider, cycleVars >>

\* loadConfig: os.Open and Decode; any error is fatal
LoadConfig ==
    /\ pc = "load"
    /\ \E ok \in BOOLEAN :
          IF ok
             THEN /\ \E c \in Configs : config' = c
                  /\ pc' = "mkdir"
                  /\ UNCHANGED exitCode
             ELSE /\ Exit(1)
                  /\ UNCHANGED config
    /\ UNCHANGED << logFile, client, provider, cycleVars >>

\* logFilePath of main: the configured path, "DDns.log" when empty
LogFilePath(c) == IF c.LogPath = "" THEN "DDns.log" ELSE c.LogPath

\* filepath.Dir on the log paths of the model
Dir(path) == IF path = "logs/DDns.log" THEN "logs" ELSE "."

\* os.MkdirAll on the log directory, when the path names one
MkLogDir ==
    /\ pc = "mkdir"
    /\ LET logDir == Dir(LogFilePath(config))
       IN  IF logDir # "." /\ logDir # ""
              THEN \E ok \in BOOLEAN :
                      IF ok
                         THEN pc' = "open" /\ UNCHANGED exitCode
                         ELSE Exit(1)
              ELSE pc' = "open" /\ UNCHANGED exitCode
    /\ UNCHANGED << config, logFile, client, provider, cycleVars >>

\* os.OpenFile on the log path, then log.New
OpenLogFile ==
    /\ pc = "open"
    /\ \E ok \in BOOLEAN :
          IF ok
             THEN /\ logFile' = "open"
                  /\ pc' = "client"
                  /\ UNCHANGED exitCode
             ELSE /\ Exit(1)
                  /\ UNCHANGED logFile
    /\ UNCHANGED << config, client, provider, cycleVars >>

\* NewClient with the error only logged: main goes on with the client it got
NewClientIgnoresErr ==
    /\ pc = "client"
    /\ \E ok \in BOOLEAN :
          IF ok
             THEN /\ client' = "ready"
                  /\ UNCHANGED fileLog
             ELSE /\ fileLog' = Append(fileLog, <<"Failed to create Aliyun DNS client:", "ClientError">>)
                  /\ UNCHANGED client
    /\ pc' = "resolve"
    /\ UNCHANGED << exitCode, config, logFile, provider, publicIP, ipErr, listed, calls,
                    ret, stdLog, sleepDuration, lastCycle, httpResp, httpRequests >>

\* alidns.NewClientWithAccessKey; a failure goes to fileLogger.Fatal
NewClient ==
    /\ pc = "client"
    /\ \E ok \in BOOLEAN :
          IF ok
             THEN /\ client' = "ready"
                  /\ pc' = "resolve"
                  /\ UNCHANGED << exitCode, fileLog >>
             ELSE /\ fileLog' = Append(fileLog, <<"Failed to create Aliyun DNS client:", "ClientError">>)
                  /\ Exit(1)
                  /\ UNCHANGED client
    /\ UNCHANGED << config, logFile, provider, publicIP, ipErr, listed, calls, ret,
                    stdLog, sleepDuration, lastCycle, httpResp, httpRequests >>

-----------------------------------------------------------------------------
(* getPublicIP, lines 46-69 *)

StatusOK == 200

\* line 47: one http.Get on apiURL
HttpGet ==
    /\ pc = "resolve"
    /\ \E resp \in Responses : httpResp' = resp
    /\ httpRequests' = httpRequests + 1
    /\ pc' = "decode"
    /\ UNCHANGED << exitCode, config, logFile, client, provider, publicIP, ipErr,
                    listed, calls, ret, fileLog, stdLog, sleepDuration, lastCycle >>

\* lines 48-68: the (ip, err) getPublicIP returns for the response of
\* http.Get; Decode reads the first JSON value of the body and no further
getPublicIP(resp) ==
    IF resp.netErr
       THEN [ip |-> "", err |-> "NetError"]
    ELSE IF resp.status # StatusOK
       THEN [ip |-> "", err |-> "HTTPStatus"]
    ELSE IF resp.body.kind \in {"invalid", "array"}
       THEN [ip |-> "", err |-> "DecodeError"]
    ELSE IF resp.body.kind = "null" \/ resp.body.ip \in {"absent", "nonstring"}
       THEN [ip |-> "", err |-> "IPNotFound"]
    ELSE [ip |-> resp.body.ip, err |-> "nil"]

\* GetPublicIP without the else of line 180: updateDNSRecord is called after a
\* failed resolution too
GetPublicIPNoElse ==
    /\ pc = "decode"
    /\ LET res == getPublicIP(httpResp)
       IN  /\ publicIP' = res.ip
           /\ ipErr' = res.err
           /\ fileLog' = IF res.err # "nil"
                            THEN Append(fileLog, <<"Failed to get public IP:", res.err>>)
                            ELSE fileLog
    /\ httpResp' = NoResponse
    /\ pc' = "describe"
    /\ UNCHANGED << exitCode, config, logFile, client, provider, listed, calls, ret,
                    stdLog, sleepDuration, lastCycle, httpRequests >>

\* GetPublicIP with a continue after the log line of 179: the delay and the
\* sleep are skipped and the next iteration begins
GetPublicIPContinue ==
    /\ pc = "decode"
    /\ LET res == getPublicIP(httpResp)
       IN  IF res.err # "nil"
              THEN /\ lastCycle' = [ran |-> TRUE, ipErr |-> res.err, ops |-> <<>>,
                                    ret |-> "none",
                                    sink |-> << <<"Failed to get public IP:", res.err>> >>]
                   /\ httpRequests' = 0
                   /\ pc' = "resolve"
                   /\ UNCHANGED << publicIP, ipErr >>
              ELSE /\ publicIP' = res.ip
                   /\ ipErr' = res.err
                   /\ pc' = "describe"
                   /\ UNCHANGED << lastCycle, httpRequests >>
    /\ httpResp' = NoResponse
    /\ UNCHANGED << exitCode, config, logFile, client, provider, listed, calls, ret,
                    fileLog, stdLog, sleepDuration >>

\* main, lines 173-180: getPublicIP returns; on an error main logs it to the
\* file logger and goes to the delay, otherwise it goes on to updateDNSRecord
GetPublicIP ==
    /\ pc = "decode"
    /\ LET res == getPublicIP(httpResp)
       IN  /\ publicIP' = res.ip
           /\ ipErr' = res.err
           /\ IF res.err # "nil"
                 THEN /\ fileLog' = Append(fileLog, <<"Failed to get public IP:", res.err>>)
                      /\ pc' = "delay"
                 ELSE /\ pc' = "describe"
                      /\ UNCHANGED fileLog
    /\ httpResp' = NoResponse
    /\ UNCHANGED << exitCode, config, logFile, client, provider, listed, calls, ret,
                    stdLog, sleepDuration, lastCycle, httpRequests >>

-----------------------------------------------------------------------------
(* updateDNSRecord, lines 71-119 *)

DescribeRequest(domainName) ==
    [op |-> "DescribeDomainRecords", DomainName |-> domainName, RecordId |-> 0,
     RR |-> "", Type |-> "", Value |-> ""]

\* UpdateRequest with the record's old value written back
UpdateRequestOldValue(record, ip) ==
    [op |-> "UpdateDomainRecord", DomainName |-> "", RecordId |-> record.RecordId,
     RR |-> record.RR, Type |-> record.Type, Value |-> record.Value]

\* lines 93-98
UpdateRequest(record, ip) ==
    [op |-> "UpdateDomainRecord", DomainName |-> "", RecordId |-> record.RecordId,
     RR |-> record.RR, Type |-> record.Type, Value |-> ip]

\* AddRequest without the assignment of line 110
AddRequestNoValue(domainName, recordType, rr, ip) ==
    [op |-> "AddDomainRecord", DomainName |-> domainName, RecordId |-> 0,
     RR |-> rr, Type |-> recordType, Value |-> ""]

\* lines 107-112
AddRequest(domainName, recordType, rr, ip) ==
    [op |-> "AddDomainRecord", DomainName |-> domainName, RecordId |-> 0,
     RR |-> rr, Type |-> recordType, Value |-> ip]

\* Matches without the comparison of the RR
MatchesTypeOnly(record, recordType, rr) == record.Type = recordType

\* Matches with records of empty Value passed over
MatchesNonEmpty(record, recordType, rr) ==
    record.Type = recordType /\ record.RR = rr /\ record.Value # ""

\* line 85
Matches(record, recordType, rr) == record.Type = recordType /\ record.RR = rr

\* the scan of line 84 without the return in its body: the last match wins
RECURSIVE LastMatch(_, _, _, _)
LastMatch(records, recordType, rr, i) ==
    IF i > Len(records) THEN 0
    ELSE LET later == LastMatch(records, recordType, rr, i + 1)
         IN  IF later # 0 THEN later
             ELSE IF Matches(records[i], recordType, rr) THEN i
             ELSE 0

\* the scan of line 84 begun one record too late
RECURSIVE ScanFrom(_, _, _, _)
ScanFrom(records, recordType, rr, i) ==
    IF i > Len(records) THEN 0
    ELSE IF Matches(records[i], recordType, rr) THEN i
    ELSE ScanFrom(records, recordType, rr, i + 1)

FirstMatchFromSecond(records, recordType, rr, i) ==
    ScanFrom(records, recordType, rr, i + 1)

\* the index at which the loop of line 84 returns, from i on; 0 when it
\* runs to the end
RECURSIVE FirstMatch(_, _, _, _)
FirstMatch(records, recordType, rr, i) ==
    IF i > Len(records) THEN 0
    ELSE IF Matches(records[i], recordType, rr) THEN i
    ELSE FirstMatch(records, recordType, rr, i + 1)

\* SameValue with the comparison inverted
SameValueInverted(record, ip) == record.Value # ip

\* line 87
SameValue(record, ip) == record.Value = ip

\* foundRecord is declared at line 83 and never assigned
foundRecord == FALSE

\* the provider after a successful UpdateDomainRecord
ApplyUpdate(records, req) ==
    [i \in 1..Len(records) |->
        IF records[i].RecordId = req.RecordId
           THEN [RecordId |-> req.RecordId, Type |-> req.Type, RR |-> req.RR,
                 Value |-> req.Value]
           ELSE records[i]]

\* the provider after a successful AddDomainRecord
ApplyAdd(records, req) ==
    Append(records, [RecordId |-> Len(records) + 1, Type |-> req.Type, RR |-> req.RR,
                     Value |-> req.Value])

\* DescribeDomainRecords with the error of the list call dropped: the scan
\* runs over the empty answer
DescribeDomainRecordsIgnoresErr ==
    /\ pc = "describe"
    /\ \E ok \in BOOLEAN :
          /\ calls' = Append(calls, [req |-> DescribeRequest(config.DomainName), ok |-> ok])
          /\ listed' = IF ok THEN provider ELSE <<>>
    /\ pc' = "scan"
    /\ UNCHANGED << exitCode, config, logFile, client, provider, publicIP, ipErr, ret,
                    fileLog, stdLog, sleepDuration, lastCycle, httpResp, httpRequests >>

\* DescribeDomainRecords asked only when the previous iteration did not get a
\* list: otherwise the scan runs without a request of this iteration
DescribeDomainRecordsOnce ==
    /\ pc = "describe"
    /\ IF lastCycle.ran /\ lastCycle.ops # <<>> /\ lastCycle.ret # "ListError"
          THEN /\ listed' = provider
               /\ pc' = "scan"
               /\ UNCHANGED << calls, ret >>
          ELSE \E ok \in BOOLEAN :
                  /\ calls' = Append(calls, [req |-> DescribeRequest(config.DomainName), ok |-> ok])
                  /\ IF ok
                        THEN /\ listed' = provider
                             /\ pc' = "scan"
                             /\ UNCHANGED ret
                        ELSE /\ ret' = "ListError"
                             /\ pc' = "report"
                             /\ UNCHANGED listed
    /\ UNCHANGED << exitCode, config, logFile, client, provider, publicIP, ipErr,
                    fileLog, stdLog, sleepDuration, lastCycle, httpResp, httpRequests >>

\* lines 72-80: list the records of the domain; an error is returned as is
DescribeDomainRecords ==
    /\ pc = "describe"
    /\ \E ok \in BOOLEAN :
          /\ calls' = Append(calls, [req |-> DescribeRequest(config.DomainName), ok |-> ok])
          /\ IF ok
                THEN /\ listed' = provider
                     /\ pc' = "scan"
                     /\ UNCHANGED ret
                ELSE /\ ret' = "ListError"
                     /\ pc' = "report"
                     /\ UNCHANGED listed
    /\ UNCHANGED << exitCode, config, logFile, client, provider, publicIP, ipErr,
                    fileLog, stdLog, sleepDuration, lastCycle, httpResp, httpRequests >>

\* NoUpdateNeeded with a break in place of the return of line 89: foundRecord
\* being false, the record is added although one matched
NoUpdateNeededBreaks ==
    /\ pc = "scan"
    /\ LET i == FirstMatch(listed, config.RecordType, config.RR, 1)
       IN  /\ i # 0
           /\ SameValue(listed[i], publicIP)
    /\ stdLog' = Append(stdLog, <<"Current IP is the same as the record IP. No update needed.">>)
    /\ LET req == AddRequest(config.DomainName, config.RecordType, config.RR, publicIP)
       IN  \E ok \in BOOLEAN :
              /\ calls' = Append(calls, [req |-> req, ok |-> ok])
              /\ provider' = IF ok THEN ApplyAdd(provider, req) ELSE provider
              /\ ret' = IF ok THEN "nil" ELSE "AddError"
    /\ pc' = "report"
    /\ UNCHANGED << exitCode, config, logFile, client, publicIP, ipErr, listed,
                    fileLog, sleepDuration, lastCycle, httpResp, httpRequests >>

\* lines 84-90: the first matching record holds the resolved address
NoUpdateNeeded ==
    /\ pc = "scan"
    /\ LET i == FirstMatch(listed, config.RecordType, config.RR, 1)
       IN  /\ i # 0
           /\ SameValue(listed[i], publicIP)
    /\ stdLog' = Append(stdLog, <<"Current IP is the same as the record IP. No update needed.">>)
    /\ ret' = "ErrNoUpdateNeeded"
    /\ pc' = "report"
    /\ UNCHANGED << exitCode, config, logFile, client, provider, publicIP, ipErr,
                    listed, calls, fileLog, sleepDuration, lastCycle, httpResp, httpRequests >>

\* UpdateDomainRecord without the return of line 101: the loop runs on and,
\* foundRecord being false, the record is added as well
UpdateDomainRecordFallsThrough ==
    /\ pc = "scan"
    /\ LET i == FirstMatch(listed, config.RecordType, config.RR, 1)
       IN  /\ i # 0
           /\ ~SameValue(listed[i], publicIP)
           /\ LET upd == UpdateRequest(listed[i], publicIP)
                  add == AddRequest(config.DomainName, config.RecordType, config.RR, publicIP)
              IN  \E ok1, ok2 \in BOOLEAN :
                     /\ calls' = calls \o << [req |-> upd, ok |-> ok1], [req |-> add, ok |-> ok2] >>
                     /\ provider' =
                           LET p1 == IF ok1 THEN ApplyUpdate(provider, upd) ELSE provider
                           IN  IF ok2 THEN ApplyAdd(p1, add) ELSE p1
                     /\ ret' = IF ok2 THEN "nil" ELSE "AddError"
    /\ pc' = "report"
    /\ UNCHANGED << exitCode, config, logFile, client, publicIP, ipErr, listed,
                    fileLog, stdLog, sleepDuration, lastCycle, httpResp, httpRequests >>

\* UpdateDomainRecord with a failed update followed by an add in the same call
UpdateDomainRecordFallsBack ==
    /\ pc = "scan"
    /\ LET i == FirstMatch(listed, config.RecordType, config.RR, 1)
       IN  /\ i # 0
           /\ ~SameValue(listed[i], publicIP)
           /\ LET upd == UpdateRequest(listed[i], publicIP)
                  add == AddRequest(config.DomainName, config.RecordType, config.RR, publicIP)
              IN  \E ok1, ok2 \in BOOLEAN :
                     IF ok1
                        THEN /\ calls' = Append(calls, [req |-> upd, ok |-> TRUE])
                             /\ provider' = ApplyUpdate(provider, upd)
                             /\ ret' = "nil"
                        ELSE /\ calls' = calls \o << [req |-> upd, ok |-> FALSE],
                                                     [req |-> add, ok |-> ok2] >>
                             /\ provider' = IF ok2 THEN ApplyAdd(provider, add) ELSE provider
                             /\ ret' = IF ok2 THEN "nil" ELSE "AddError"
    /\ pc' = "report"
    /\ UNCHANGED << exitCode, config, logFile, client, publicIP, ipErr, listed,
                    fileLog, stdLog, sleepDuration, lastCycle, httpResp, httpRequests >>

\* lines 92-101: the first matching record holds another value
UpdateDomainRecord ==
    /\ pc = "scan"
    /\ LET i == FirstMatch(listed, config.RecordType, config.RR, 1)
       IN  /\ i # 0
           /\ ~SameValue(listed[i], publicIP)
           /\ LET req == UpdateRequest(listed[i], publicIP)
              IN  \E ok \in BOOLEAN :
                     /\ calls' = Append(calls, [req |-> req, ok |-> ok])
                     /\ IF ok
                           THEN /\ provider' = ApplyUpdate(provider, req)
                                /\ ret' = "nil"
                           ELSE /\ ret' = "UpdateError"
                                /\ UNCHANGED provider
    /\ pc' = "report"
    /\ UNCHANGED << exitCode, config, logFile, client, publicIP, ipErr, listed,
                    fileLog, stdLog, sleepDuration, lastCycle, httpResp, httpRequests >>

\* lines 105-118: the loop ended without a match
AddDomainRecord ==
    /\ pc = "scan"
    /\ FirstMatch(listed, config.RecordType, config.RR, 1) = 0
    /\ IF ~foundRecord
          THEN LET req == AddRequest(config.DomainName, config.RecordType, config.RR, publicIP)
               IN  \E ok \in BOOLEAN :
                      /\ calls' = Append(calls, [req |-> req, ok |-> ok])
                      /\ IF ok
                            THEN /\ provider' = ApplyAdd(provider, req)
                                 /\ ret' = "nil"
                            ELSE /\ ret' = "AddError"
                                 /\ UNCHANGED provider
          ELSE /\ ret' = "DNS record not found"
               /\ UNCHANGED << calls, provider >>
    /\ pc' = "report"
    /\ UNCHANGED << exitCode, config, logFile, client, publicIP, ipErr, listed,
                    fileLog, stdLog, sleepDuration, lastCycle, httpResp, httpRequests >>

-----------------------------------------------------------------------------
(* The rest of the loop body: main, lines 181-201 *)

\* lines 182-191: what fileLogger receives for the err of updateDNSRecord
ReportLines(err) ==
    IF err # "nil"
       THEN IF err # "ErrNoUpdateNeeded"
               THEN << <<"Failed to update DNS record:", err>> >>
               ELSE << >>
       ELSE << <<"DNS record updated successfully">> >>

\* Report with the failure handed to fileLogger.Fatalf
ReportFatal ==
    /\ pc = "report"
    /\ fileLog' = fileLog \o ReportLines(ret)
    /\ IF ret \notin {"nil", "ErrNoUpdateNeeded"}
          THEN Exit(1)
          ELSE pc' = "delay" /\ UNCHANGED exitCode
    /\ UNCHANGED << config, logFile, client, provider, publicIP, ipErr,
                    listed, calls, ret, stdLog, sleepDuration, lastCycle, httpResp, httpRequests >>

Report ==
    /\ pc = "report"
    /\ fileLog' = fileLog \o ReportLines(ret)
    /\ pc' = "delay"
    /\ UNCHANGED << exitCode, config, logFile, client, provider, publicIP, ipErr,
                    listed, calls, ret, stdLog, sleepDuration, lastCycle, httpResp, httpRequests >>

\* lines 233-244, in seconds
getSleepDuration(delay, timeUnit) ==
    IF timeUnit = "second" THEN [d |-> delay * Second, err |-> "nil"]
    ELSE IF timeUnit = "minute" THEN [d |-> delay * Minute, err |-> "nil"]
    ELSE IF timeUnit = "hour" THEN [d |-> delay * Hour, err |-> "nil"]
    ELSE [d |-> 0, err |-> "unknown time unit"]

\* lines 195-199: an error of getSleepDuration is replaced by one minute
GetSleepDuration ==
    /\ pc = "delay"
    /\ LET res == getSleepDuration(config.Delay, config.TimeUnit)
       IN  IF res.err # "nil"
              THEN /\ stdLog' = Append(stdLog, <<"Failed to get sleep duration:", res.err>>)
                   /\ sleepDuration' = 1 * Minute
              ELSE /\ sleepDuration' = res.d
                   /\ UNCHANGED stdLog
    /\ pc' = "sleep"
    /\ UNCHANGED << exitCode, config, logFile, client, provider, publicIP, ipErr,
                    listed, calls, ret, fileLog, lastCycle, httpResp, httpRequests >>

\* the names of the requests of an iteration, in order
Ops(cs) == [i \in 1..Len(cs) |-> cs[i].req.op]

\* line 201, and the start of the next iteration: the iteration's locals are
\* fresh again
Sleep ==
    /\ pc = "sleep"
    /\ lastCycle' = [ran |-> TRUE, ipErr |-> ipErr, ops |-> Ops(calls), ret |-> ret,
                     sink |-> fileLog]
    /\ publicIP' = ""
    /\ ipErr' = "nil"
    /\ listed' = <<>>
    /\ calls' = <<>>
    /\ ret' = "none"
    /\ fileLog' = <<>>
    /\ stdLog' = <<>>
    /\ sleepDuration' = 0
    /\ httpRequests' = 0
    /\ pc' = "resolve"
    /\ UNCHANGED << exitCode, config, logFile, client, provider, httpResp >>

-----------------------------------------------------------------------------

Next ==
    \/ StatConfig
    \/ LoadConfig
    \/ MkLogDir
    \/ OpenLogFile
    \/ NewClient
    \/ HttpGet
    \/ GetPublicIP
    \/ DescribeDomainRecords
    \/ NoUpdateNeeded
    \/ UpdateDomainRecord
    \/ AddDomainRecord
    \/ Report
    \/ GetSleepDuration
    \/ Sleep

Spec == Init /\ [][Next]_vars

\* main is one sequential thread: whenever it has a next step, it takes it
FairSpec == Spec /\ WF_vars(Next)

-----------------------------------------------------------------------------
(* A stable environment *)

\* the address the resolver keeps answering in a stable environment
StableIP == "5.6.7.8"

\* a step in a stable environment: line 47 is answered with a response from
\* which getPublicIP returns StableIP, and no gateway request is answered
\* with an error
StableStep ==
    /\ pc' = "decode" => getPublicIP(httpResp') = [ip |-> StableIP, err |-> "nil"]
    /\ \A i \in 1..Len(calls') : calls'[i].ok

\* the steps of main that a stable environment allows
StableNext ==
    \/ StatConfig /\ StableStep
    \/ LoadConfig /\ StableStep
    \/ MkLogDir /\ StableStep
    \/ OpenLogFile /\ StableStep
    \/ NewClient /\ StableStep
    \/ HttpGet /\ StableStep
    \/ GetPublicIP /\ StableStep
    \/ DescribeDomainRecords /\ StableStep
    \/ NoUpdateNeeded /\ StableStep
    \/ UpdateDomainRecord /\ StableStep
    \/ AddDomainRecord /\ StableStep
    \/ Report /\ StableStep
    \/ GetSleepDuration /\ StableStep
    \/ Sleep /\ StableStep

\* main in a stable environment, from any configuration and any record set
StableSpec == Init /\ [][StableNext]_vars

-----------------------------------------------------------------------------
(* Vocabulary of the properties *)

LoopPcs == {"resolve", "decode", "describe", "scan", "report", "delay", "sleep"}

MutatingOps == {"UpdateDomainRecord", "AddDomainRecord"}

\* the mutating requests among the gateway requests cs, in order
Mutations(cs) == SelectSeq(cs, LAMBDA c : c.req.op \in MutatingOps)

\* updateDNSRecord was called in this iteration and has returned
Returned == pc \in {"report", "delay", "sleep"} /\ ret # "none"

\* DescribeDomainRecords was called in this iteration and answered without error
ListSucceeded ==
    /\ Len(calls) >= 1
    /\ calls[1].req.op = "DescribeDomainRecords"
    /\ calls[1].ok

\* DescribeDomainRecords was called in this iteration and answered with an error
ListFailed ==
    /\ Len(calls) >= 1
    /\ calls[1].req.op = "DescribeDomainRecords"
    /\ ~calls[1].ok

\* the positions of the listed records under the configured (recordType, rr)
MatchingIndexes ==
    { i \in 1..Len(listed) :
        listed[i].Type = config.RecordType /\ listed[i].RR = config.RR }

\* the number of the records under the configured (recordType, rr)
MatchCount(records) ==
    Cardinality({ i \in 1..Len(records) :
                    Matches(records[i], config.RecordType, config.RR) })

\* the first of them
Selected == CHOOSE i \in MatchingIndexes : \A j \in MatchingIndexes : i <= j

\* the outcome of an iteration in which updateDNSRecord issued the requests
\* named ops and returned r
OutcomeOf(r, ops) ==
    IF r = "ErrNoUpdateNeeded" THEN "NoUpdateNeeded"
    ELSE IF r = "nil" /\ ops = <<"DescribeDomainRecords", "UpdateDomainRecord">> THEN "Updated"
    ELSE IF r = "nil" /\ ops = <<"DescribeDomainRecords", "AddDomainRecord">> THEN "Created"
    ELSE "Failed"

Outcome == OutcomeOf(ret, Ops(calls))

-----------------------------------------------------------------------------
(* Properties *)

\* C1: when the list call succeeded and the first listed record under the
\* configured (recordType, rr) holds the resolved address, updateDNSRecord
\* returns ErrNoUpdateNeeded and the iteration issues no UpdateDomainRecord
\* and no AddDomainRecord.
C1_NoOp ==
    (Returned /\ ListSucceeded /\ MatchingIndexes # {}
       /\ listed[Selected].Value = publicIP)
    => /\ Outcome = "NoUpdateNeeded"
       /\ Mutations(calls) = <<>>

C1_Witness ==
    /\ pc = "sleep"
    /\ ListSucceeded
    /\ Cardinality(MatchingIndexes) = 2
    /\ listed[Selected].Value = publicIP
    /\ \E i \in MatchingIndexes : listed[i].Value # publicIP

\* C2: when the list call succeeded and the first listed record under the
\* configured key holds another value than the resolved address, the iteration
\* issues exactly one mutating request, an UpdateDomainRecord carrying that
\* record's RecordId, RR and Type and the resolved address as Value, and
\* updateDNSRecord returns nil (Updated) when the provider accepts it.
C2_Update ==
    (Returned /\ ListSucceeded /\ MatchingIndexes # {}
       /\ listed[Selected].Value # publicIP)
    => /\ Len(Mutations(calls)) = 1
       /\ LET m == Mutations(calls)[1]
          IN  /\ m.req.op = "UpdateDomainRecord"
              /\ m.req.RecordId = listed[Selected].RecordId
              /\ m.req.RR = listed[Selected].RR
              /\ m.req.Type = listed[Selected].Type
              /\ m.req.Value = publicIP
              /\ m.ok => Outcome = "Updated"

C2_Witness ==
    /\ pc = "sleep"
    /\ ListSucceeded
    /\ MatchingIndexes # {}
    /\ Selected > 1
    /\ listed[Selected].Value # publicIP
    /\ Outcome = "Updated"

\* C3: when the list call succeeded and no listed record is under the
\* configured key (the empty list included), the iteration issues exactly one
\* mutating request, an AddDomainRecord carrying the configured domainName,
\* recordType and rr and the resolved address, and updateDNSRecord returns nil
\* (Created) when the provider accepts it.
C3_Create ==
    (Returned /\ ListSucceeded /\ MatchingIndexes = {})
    => /\ Len(Mutations(calls)) = 1
       /\ LET m == Mutations(calls)[1]
          IN  /\ m.req.op = "AddDomainRecord"
              /\ m.req.DomainName = config.DomainName
              /\ m.req.Type = config.RecordType
              /\ m.req.RR = config.RR
              /\ m.req.Value = publicIP
              /\ m.ok => Outcome = "Created"

C3_Witness ==
    /\ pc = "sleep"
    /\ ListSucceeded
    /\ Len(listed) = 2
    /\ MatchingIndexes = {}
    /\ Outcome = "Created"

\* C4: an iteration issues at most one mutating request, whatever the record
\* list and whichever gateway calls fail.
C4_AtMostOneMutation == Len(Mutations(calls)) <= 1

C4_Witness ==
    /\ pc = "sleep"
    /\ Cardinality(MatchingIndexes) >= 2
    /\ Len(Mutations(calls)) = 1
    /\ ~Mutations(calls)[1].ok

\* C5: when the list call fails, updateDNSRecord returns that error (Failed),
\* the iteration issues no other gateway request, and the loop goes on to
\* the sleep and to the next iteration.
C5_ListFailure ==
    /\ [](ListFailed => /\ pc \in {"report", "delay", "sleep"}
                        /\ ret = "ListError"
                        /\ Outcome = "Failed"
                        /\ Len(calls) = 1)
    /\ ListFailed ~> (pc = "resolve" /\ lastCycle.ret = "ListError")
    /\ (pc = "resolve") ~> (pc \in {"describe", "delay"})

C5_Witness ==
    /\ pc = "resolve"
    /\ lastCycle.ret = "ListError"
    /\ lastCycle.ops = <<"DescribeDomainRecords">>
    /\ Len(provider) > 0

\* C6: when getPublicIP returns an error, the iteration issues no gateway
\* request at all; the error is written to the file logger and the next step
\* is the delay.
C6_ResolverFailureSkip ==
    ipErr # "nil"
    => /\ calls = <<>>
       /\ ret = "none"
       /\ pc \in {"delay", "sleep"}
       /\ fileLog = << <<"Failed to get public IP:", ipErr>> >>

C6_Witness ==
    /\ pc = "sleep"
    /\ ipErr = "HTTPStatus"
    /\ calls = <<>>

\* an iteration in which the resolver or a gateway call failed
CycleFailed ==
    /\ pc \in {"report", "delay", "sleep"}
    /\ ipErr # "nil" \/ (Returned /\ Outcome = "Failed")

\* C7: once the loop runs the process stays in it, and after an iteration
\* with a failure the sleep ends and the next iteration resolves again.
C7_LoopResilience ==
    /\ [][(pc \in LoopPcs) => (pc' \in LoopPcs)]_vars
    /\ CycleFailed ~> (pc = "resolve" /\ lastCycle.ran)
    /\ (pc = "resolve" /\ lastCycle.ran) ~> (pc \in {"describe", "delay"})

C7_Witness ==
    /\ pc = "delay"
    /\ ipErr # "nil"
    /\ lastCycle.ran
    /\ lastCycle.ret = "UpdateError"

\* C8: the duration handed to time.Sleep is greater than zero for every
\* configuration.
C8_PositiveInterval == pc = "sleep" => sleepDuration > 0

\* C9: two iterations in which updateDNSRecord ran and that ended in
\* different outcomes do not leave the same lines in the file log.
C9_Distinguishable ==
    (pc = "sleep" /\ lastCycle.ran /\ Returned /\ lastCycle.ret # "none"
       /\ Outcome # OutcomeOf(lastCycle.ret, lastCycle.ops))
    => fileLog # lastCycle.sink

\* the loop has left a trace: an address, an error or a gateway request
LoopActivity ==
    \/ httpRequests # 0
    \/ publicIP # ""
    \/ ipErr # "nil"
    \/ calls # <<>>
    \/ lastCycle.ran

StartupDone ==
    /\ config \in Configs
    /\ logFile = "open"
    /\ client = "ready"

\* C10, as first stated: the loop runs only after the configuration was
\* decoded, the log file opened and the client constructed, and a process
\* that has exited has exited with a non-zero status.
C10_ExitNonZero ==
    /\ (pc \in LoopPcs \/ LoopActivity) => StartupDone
    /\ pc = "exited" => exitCode # 0

\* C10, amended: the loop runs only after the configuration was decoded, the
\* log file opened and the client constructed; a missing configuration file
\* ends the process with status 0 and a failure to load the configuration,
\* create the log directory, open the log file or construct the client ends
\* it with status 1, all before the first iteration; once the loop runs the
\* process never exits.
C10_StartupGating ==
    /\ []((pc \in LoopPcs \/ LoopActivity) => (StartupDone /\ exitCode = -1))
    /\ [][pc' = "exited" =>
            \/ pc = "stat" /\ exitCode' = 0
            \/ pc \in {"load", "mkdir", "open", "client"} /\ exitCode' = 1]_vars
    /\ [][(pc \in LoopPcs) => (pc' \in LoopPcs)]_vars

C10_Witness ==
    /\ pc = "exited"
    /\ exitCode = 1
    /\ logFile = "open"
    /\ client = "nil"
    /\ ~LoopActivity

\* C11: in every iteration the file logger receives exactly one line.
C11_OneSinkLine == pc = "sleep" => Len(fileLog) = 1

\* C12: when several listed records are under the configured key, the first
\* of them alone decides the iteration: no mutating request when it holds the
\* resolved address, otherwise the one UpdateDomainRecord built from it and
\* the resolved address; the later matching records stay as they were listed.
C12_FirstMatch ==
    (Returned /\ ListSucceeded /\ Cardinality(MatchingIndexes) >= 2)
    => /\ IF listed[Selected].Value = publicIP
             THEN /\ Outcome = "NoUpdateNeeded"
                  /\ Mutations(calls) = <<>>
             ELSE /\ Len(Mutations(calls)) = 1
                  /\ Mutations(calls)[1].req =
                        [op |-> "UpdateDomainRecord", DomainName |-> "",
                         RecordId |-> listed[Selected].RecordId,
                         RR |-> listed[Selected].RR, Type |-> listed[Selected].Type,
                         Value |-> publicIP]
       /\ \A j \in MatchingIndexes \ {Selected} : provider[j] = listed[j]

C12_Witness ==
    /\ pc = "sleep"
    /\ ListSucceeded
    /\ Cardinality(MatchingIndexes) = 2
    /\ listed[Selected].Value # publicIP
    /\ \E j \in MatchingIndexes \ {Selected} : listed[j].Value = publicIP
    /\ Outcome = "Updated"

\* the single mutating request of this iteration was answered with an error
MutationFailed ==
    /\ Len(Mutations(calls)) >= 1
    /\ ~Mutations(calls)[1].ok

\* C13: when the mutating request of an iteration fails, updateDNSRecord
\* returns that error (Failed), the iteration issues no further gateway
\* request, and the requests start again only with the Sleep that ends the
\* iteration.
C13_NoRetry ==
    /\ [](MutationFailed => /\ Len(calls) = 2
                            /\ ret \in {"UpdateError", "AddError"}
                            /\ Outcome = "Failed"
                            /\ pc \in {"report", "delay", "sleep"})
    /\ [][(MutationFailed /\ calls' # calls)
            => (pc = "sleep" /\ pc' = "resolve" /\ calls' = <<>>)]_vars

C13_Witness ==
    /\ pc = "sleep"
    /\ Ops(calls) = <<"DescribeDomainRecords", "UpdateDomainRecord">>
    /\ ~calls[2].ok
    /\ Cardinality(MatchingIndexes) = 1

\* C14: an iteration that resolved an address issues DescribeDomainRecords
\* exactly once, before any mutating request; every mutating request carries
\* the address resolved in the same iteration; the list that is scanned is the
\* provider's answer of the same iteration, and an iteration begins with no
\* address and no list.
C14_NoCaching ==
    /\ []((ipErr = "nil" /\ pc \in {"scan", "report", "delay", "sleep"})
            => /\ Len(calls) >= 1
               /\ calls[1].req.op = "DescribeDomainRecords"
               /\ \A i \in 2..Len(calls) : calls[i].req.op \in MutatingOps)
    /\ [](\A i \in 1..Len(calls) :
             calls[i].req.op \in MutatingOps => calls[i].req.Value = publicIP)
    /\ [][(pc = "describe" /\ pc' = "scan") => listed' = provider]_vars
    /\ [](pc \in {"resolve", "decode", "describe"} => listed = <<>> /\ calls = <<>>)
    /\ [](pc \in {"resolve", "decode"} => publicIP = "")

C14_Witness ==
    /\ pc = "sleep"
    /\ lastCycle.ops = <<"DescribeDomainRecords", "AddDomainRecord">>
    /\ lastCycle.ret = "nil"
    /\ Ops(calls) = <<"DescribeDomainRecords", "UpdateDomainRecord">>
    /\ calls[2].req.Value = publicIP
    /\ listed[Selected].Value # publicIP

\* the order of the steps of the loop body
LoopOrder ==
    { <<"resolve", "decode">>, <<"decode", "describe">>, <<"decode", "delay">>,
      <<"describe", "scan">>, <<"describe", "report">>, <<"scan", "report">>,
      <<"report", "delay">>, <<"delay", "sleep">>, <<"sleep", "resolve">> }

\* C15: the loop body runs its steps in one order: resolve, list, at most one
\* mutating request, report, delay, sleep; the next iteration begins only from
\* the sleep, so every iteration sleeps once, whatever its outcome.
C15_Sequential ==
    /\ [][(pc \in LoopPcs /\ pc' # pc) => (<<pc, pc'>> \in LoopOrder)]_vars
    /\ [](Ops(calls) \in { <<>>, <<"DescribeDomainRecords">>,
                           <<"DescribeDomainRecords", "UpdateDomainRecord">>,
                           <<"DescribeDomainRecords", "AddDomainRecord">> })
    /\ [](calls # <<>> => (ipErr = "nil" /\ httpRequests = 1))
    /\ [](pc = "resolve" => httpRequests = 0)
    /\ [](pc \in {"delay", "sleep"} => httpRequests = 1)

C15_Witness ==
    /\ pc = "sleep"
    /\ lastCycle.ran
    /\ lastCycle.ipErr # "nil"
    /\ Ops(calls) = <<"DescribeDomainRecords", "AddDomainRecord">>

\* C16: getPublicIP issues one request per call and returns an error and no
\* address when the request fails, the status is not 200, the body is not a
\* JSON object, or "ip" is absent or not a string; otherwise it returns the
\* "ip" string and no error.
C16_ResolverResult ==
    pc = "decode"
    => LET res == getPublicIP(httpResp)
           body == httpResp.body
       IN  /\ httpRequests = 1
           /\ IF \/ httpResp.netErr
                 \/ httpResp.status # StatusOK
                 \/ body.kind # "object"
                 \/ body.rest # ""
                 \/ body.ip \in {"absent", "nonstring"}
                 THEN res.err # "nil" /\ res.ip = ""
                 ELSE res.err = "nil" /\ res.ip = body.ip

\* C17: when the resolver keeps answering one address and every gateway
\* request succeeds, the first record under the configured key holds that
\* address from the end of the first such iteration on, and every later
\* iteration returns ErrNoUpdateNeeded without a mutating request.
C17_Convergence ==
    /\ (pc = "sleep" \/ (pc \in LoopPcs /\ lastCycle.ran))
         => /\ FirstMatch(provider, config.RecordType, config.RR, 1) # 0
            /\ provider[FirstMatch(provider, config.RecordType, config.RR, 1)].Value
                  = StableIP
    /\ (pc \in LoopPcs /\ lastCycle.ran)
         => /\ Mutations(calls) = <<>>
            /\ Returned => Outcome = "NoUpdateNeeded"

C17_Witness ==
    /\ pc = "sleep"
    /\ lastCycle.ran
    /\ lastCycle.ops = <<"DescribeDomainRecords", "UpdateDomainRecord">>
    /\ publicIP = StableIP
    /\ Outcome = "NoUpdateNeeded"
    /\ Len(provider) = 2

\* C18: once the provider holds at most one record under the configured key
\* it holds at most one after every step, whatever succeeds or fails, and
\* AddDomainRecord is requested only after a list of the same iteration that
\* holds no record under the key.
C18_KeyUnique ==
    /\ [][(MatchCount(provider) <= 1) => (MatchCount(provider') <= 1)]_vars
    /\ [](\A i \in 1..Len(calls) :
             calls[i].req.op = "AddDomainRecord"
             => (ListSucceeded /\ MatchingIndexes = {}))

C18_Witness ==
    /\ pc = "sleep"
    /\ lastCycle.ops = <<"DescribeDomainRecords", "AddDomainRecord">>
    /\ lastCycle.ret = "nil"
    /\ Outcome = "Updated"
    /\ MatchCount(provider) = 1
    /\ Len(provider) >= 2

\* C19: a step changes the provider's records only as the one mutating
\* request of its iteration: either the first record under the configured key
\* gets a new Value, every other record and that record's RecordId, Type and
\* RR staying as they were, or one record is appended by AddDomainRecord; no
\* record is ever removed.
C19_Frame ==
    /\ [][(provider' # provider)
            => /\ pc = "scan"
               /\ listed = provider
               /\ Mutations(calls) = <<>>
               /\ Len(Mutations(calls')) = 1
               /\ \/ /\ Mutations(calls')[1].req.op = "UpdateDomainRecord"
                     /\ Len(provider') = Len(provider)
                     /\ MatchingIndexes # {}
                     /\ \A j \in 1..Len(provider) :
                           j # Selected => provider'[j] = provider[j]
                     /\ provider'[Selected].RecordId = provider[Selected].RecordId
                     /\ provider'[Selected].Type = provider[Selected].Type
                     /\ provider'[Selected].RR = provider[Selected].RR
                  \/ /\ Mutations(calls')[1].req.op = "AddDomainRecord"
                     /\ Len(provider') = Len(provider) + 1
                     /\ SubSeq(provider', 1, Len(provider)) = provider]_vars
    /\ [][Len(provider') >= Len(provider)]_vars
    /\ [](Len(Mutations(calls)) <= 1)

C19_Witness ==
    /\ pc = "report"
    /\ Outcome = "Updated"
    /\ Len(listed) = 2
    /\ MatchingIndexes = {2}
    /\ provider[1] = listed[1]
    /\ provider[2].Value = publicIP
    /\ listed[2].Value \notin {publicIP, ""}

\* C20: when the first listed record under the configured key holds an empty
\* Value and an address was resolved, the iteration issues exactly one
\* mutating request, an UpdateDomainRecord on that record's RecordId carrying
\* the resolved address, and is Updated unless that request itself fails.
C20_EmptyValueUpdated ==
    (Returned /\ ListSucceeded /\ MatchingIndexes # {}
       /\ listed[Selected].Value = "" /\ publicIP # "")
    => /\ Len(Mutations(calls)) = 1
       /\ Mutations(calls)[1].req.op = "UpdateDomainRecord"
       /\ Mutations(calls)[1].req.RecordId = listed[Selected].RecordId
       /\ Mutations(calls)[1].req.Value = publicIP
       /\ Mutations(calls)[1].ok => Outcome = "Updated"
       /\ ~Mutations(calls)[1].ok => ret = "UpdateError"

C20_Witness ==
    /\ pc = "sleep"
    /\ ListSucceeded
    /\ MatchingIndexes # {}
    /\ listed[Selected].Value = ""
    /\ Outcome = "Updated"
    /\ provider[Selected].Value = publicIP
    /\ Len(provider) = Len(listed)

====
